---- MODULE Spec2Model ----
(***************************************************************************)
(* A model of src/src/crew.py: FlightSearchTool._run and its helpers       *)
(* _to_iso, _get_rate, _amadeus_token and _search_leg.                     *)
(*                                                                         *)
(* One invocation of _run is a sequence of steps, one per external call    *)
(* or loop iteration, ordered by pc.  The two providers (Amadeus and the   *)
(* exchange-rate API) are the environment: every response is drawn from a  *)
(* small set.  A Python exception is pc = "failed": nothing in crew.py     *)
(* catches one, so it leaves _run without a return value.                  *)
(*                                                                         *)
(* Units: grandTotal is an integer number of 1/100 of the offer currency;  *)
(* a rate is an integer number of 1/100 BRL per unit; price_brl is an      *)
(* integer number of 1/100 BRL.  grandTotal * rate is therefore in 1/10000 *)
(* BRL.                                                                    *)
(***************************************************************************)
EXTENDS Integers, Sequences, FiniteSets, TLC

VARIABLES
    pc,              \* position in _run: idle, token, leg_out, leg_ret, loop, ret, done, failed
    origin,          \* argument of _run
    destination,     \* argument of _run
    departure_date,  \* argument of _run
    return_date,     \* argument of _run
    token,           \* local of _run (line 75)
    legs,            \* local of _run (lines 77-80)
    rates,           \* local of _run (line 82): currency -> rate
    result,          \* local of _run (line 82)
    leg_name,        \* loop variable (line 83)
    i,               \* position of o in offers (line 84), 1-based
    r,               \* the helpers' local r: <<status>> of the last response, <<>> if the request raised
    returned,        \* <<value>> once _run has returned a value (line 101), <<>> before
    calls,           \* history: the external calls issued by this invocation, in order
    order            \* history: for each result entry, the provider position of its offer

vars == <<pc, origin, destination, departure_date, return_date, token, legs, rates,
          result, leg_name, i, r, returned, calls, order>>

None == "None"

\* ------------------------------------------------------------------ bounds

\* longest provider response enumerated freely over OfferPool
MaxLen == 2

\* "max": 20 of the offer query (line 50)
ProviderMax == 20

\* ------------------------------------------------------------------ helpers

\* companies (line 9)
companies ==
    ("LA" :> "LATAM") @@ ("G3" :> "GOL") @@ ("AD" :> "Azul") @@ ("2Z" :> "Voepass")

\* companies.get(code, code) (line 91)
CompanyName(code) == IF code \in DOMAIN companies THEN companies[code] ELSE code

\* A date string is its separator and its numeric fields in textual order:
\* "10/03/2025" is [sep |-> "/", parts |-> <<10, 3, 2025>>].
DateStr(sep, a, b, c) == [sep |-> sep, parts |-> <<a, b, c>>]

IsLeap(y) == (y % 4 = 0 /\ y % 100 # 0) \/ y % 400 = 0

DaysIn(m, y) ==
    IF m = 2 THEN (IF IsLeap(y) THEN 29 ELSE 28)
    ELSE IF m \in {4, 6, 9, 11} THEN 30 ELSE 31

\* datetime.strptime(date_br, "%d/%m/%Y") succeeds
ParsesBr(date_br) ==
    /\ date_br.sep = "/"
    /\ date_br.parts[3] \in 1..9999
    /\ date_br.parts[2] \in 1..12
    /\ date_br.parts[1] \in 1..DaysIn(date_br.parts[2], date_br.parts[3])

\* _to_iso (lines 11-13): dd/MM/yyyy -> yyyy-MM-dd, defined where ParsesBr holds
to_iso(date_br) ==
    DateStr("-", date_br.parts[3], date_br.parts[2], date_br.parts[1])

\* a faulty variant of Round2: the fraction of a cent is cut off
Round2Floor(p) == {p \div 100}

\* round(x, 2) of line 96 for x = p / 10000.  The product is a binary float, so
\* a value exactly half-way between two cents lands on either neighbour
\* (round(0.03 * 5.5, 2) is 0.16 while round(0.07 * 5.5, 2) is 0.39); every
\* other value goes to the nearest cent.
Round2(p) ==
    LET lo == p \div 100
        rem == p % 100
    IN  IF rem < 50 THEN {lo}
        ELSE IF rem > 50 THEN {lo + 1}
        ELSE {lo, lo + 1}

\* a faulty variant of Product: "-" in place of "*"
ProductMinus(o, rate) == o.price.grandTotal - rate

\* float(o["price"]["grandTotal"]) * rates[cur] (line 96), in 1/10000 BRL
Product(o, rate) == o.price.grandTotal * rate

\* the dict appended at lines 89-98, for price_brl = p
Normalized(o, p) ==
    LET seg == o.itineraries[1].segments[1]
    IN  [company         |-> CompanyName(seg.carrierCode),
         departure_time  |-> seg.departure.at,
         arrival_time    |-> seg.arrival.at,
         stops           |-> seg.numberOfStops,
         seats_remaining |-> o.numberOfBookableSeats,
         price_brl       |-> p]

\* list.sort(key=...) (line 99) is stable: it moves an element in front of
\* another only when its key is strictly smaller.  InsertByKey puts position k
\* behind every position already placed whose key is <= keys[k].
RECURSIVE InsertByKey(_, _, _)
InsertByKey(p, k, keys) ==
    IF p = <<>> THEN <<k>>
    ELSE IF keys[Head(p)] <= keys[k]
         THEN <<Head(p)>> \o InsertByKey(Tail(p), k, keys)
         ELSE <<k>> \o p

RECURSIVE SortPermUpTo(_, _)
SortPermUpTo(keys, n) ==
    IF n = 0 THEN <<>> ELSE InsertByKey(SortPermUpTo(keys, n - 1), n, keys)

\* a faulty variant of SortPerm: an unstable sort, equal keys come out reversed
SortPermUnstable(keys) ==
    LET n == Len(keys)
        rev == [k \in 1..n |-> keys[n + 1 - k]]
        p == SortPermUpTo(rev, n)
    IN  [k \in 1..n |-> n + 1 - p[k]]

\* the permutation list.sort applies: SortPerm(keys)[k] is the old position
\* of the element that ends at position k
SortPerm(keys) == SortPermUpTo(keys, Len(keys))

\* the key function of line 99
PriceKeys(list) == [k \in 1..Len(list) |-> list[k].price_brl]

\* a faulty variant of Permute: the sorted list is cut to the "max" asked for
PermuteTruncated(list, p) ==
    [k \in 1..(IF Len(list) > ProviderMax THEN ProviderMax ELSE Len(list)) |-> list[p[k]]]

\* the list after list.sort has moved its elements by p
Permute(list, p) == [k \in 1..Len(list) |-> list[p[k]]]

\* ------------------------------------------------------------------ inputs

Origins == {"GRU", "GIG"}

Destinations == {"GIG"}

DepartureDates ==
    { DateStr("/", 29, 2, 2024),     \* "29/02/2024", a leap day
      DateStr("/", 31, 2, 2025) }    \* "31/02/2025": no such day

ReturnDates ==
    { DateStr("/", 10, 3, 2024),     \* "10/03/2024"
      DateStr("-", 2024, 3, 10) }    \* "2024-03-10": not dd/MM/yyyy

Tokens == {"tokA", "tokB"}

\* HTTP statuses a provider may answer with; crew.py never reads r.status_code
Statuses == {200, 401}

Success(status) == status \in 200..299

\* BRL per unit, in 1/100: 5.00, 5.50, 5.23
RateValues == {500, 550, 523}

Segment(carrier, dep, arr, stops) ==
    [carrierCode   |-> carrier,
     departure     |-> [at |-> dep],
     arrival       |-> [at |-> arr],
     numberOfStops |-> stops]

Offer(cur, total, carrier, dep, seats) ==
    [price                 |-> [currency |-> cur, grandTotal |-> total],
     itineraries           |-> <<[segments |-> <<Segment(carrier, dep, dep + 2, 0)>>]>>,
     numberOfBookableSeats |-> seats]

\* an offer record without "price": line 85 raises KeyError
OfferNoPrice ==
    [itineraries           |-> <<[segments |-> <<Segment("LA", 7, 9, 0)>>]>>,
     numberOfBookableSeats |-> 1]

\* an offer record without "itineraries": line 88 raises KeyError
OfferNoItineraries ==
    [price                 |-> [currency |-> "EUR", grandTotal |-> 15000],
     numberOfBookableSeats |-> 1]

OfferPool ==
    { Offer("USD", 20000, "LA", 7, 9),     \* 200.00 USD, LATAM
      Offer("USD", 20000, "XX", 8, 4),     \* the same price, a carrier not in companies
      Offer("EUR", 3, "G3", 17, 2) }       \* 0.03 EUR: the product needs rounding

\* every sequence over S of length at most n
RECURSIVE SeqsUpTo(_, _)
SeqsUpTo(S, n) ==
    IF n = 0 THEN {<<>>}
    ELSE LET shorter == SeqsUpTo(S, n - 1)
         IN  shorter \cup {Append(s, x) : s \in shorter, x \in S}

\* 200 USD, 150 EUR, 180 USD
ExampleData ==
    << Offer("USD", 20000, "LA", 7, 9),
       Offer("EUR", 15000, "G3", 8, 9),
       Offer("USD", 18000, "AD", 9, 9) >>

\* a response longer than the "max" asked for
LongData ==
    [k \in 1..(ProviderMax + 1) |->
        Offer(IF k % 2 = 0 THEN "EUR" ELSE "USD",
              10000 + 1000 * ((k * 7) % 5), "LA", k, 9)]

\* a negative total: -10.00 USD, then 150.00 EUR
NegativeData ==
    << Offer("USD", -1000, "AD", 9, 1), Offer("EUR", 15000, "G3", 8, 9) >>

BadRecordData ==
    { << Offer("USD", 20000, "LA", 7, 9), OfferNoPrice >>,
      << OfferNoItineraries, Offer("USD", 20000, "LA", 7, 9) >> }

OfferLists ==
    SeqsUpTo(OfferPool, MaxLen) \cup {ExampleData, LongData, NegativeData}
        \cup BadRecordData

\* response bodies, as parsed by r.json()
TokenBodies ==
    {[access_token |-> t] : t \in Tokens} \cup {[error |-> "invalid_client"]}

SearchBodies ==
    {[data |-> d] : d \in OfferLists} \cup {[errors |-> "error"]}

RateBodies ==
    {[rates |-> [BRL |-> x]] : x \in RateValues}
        \cup {[rates |-> [USD |-> 100]], [error |-> "error"]}

\* ------------------------------------------------------------------ state

EmptyRates == [c \in {} |-> 0]

EmptyLegs == [outbound |-> <<>>, return |-> <<>>]

Init ==
    /\ pc = "idle"
    /\ origin = None
    /\ destination = None
    /\ departure_date = None
    /\ return_date = None
    /\ token = None
    /\ legs = EmptyLegs
    /\ rates = EmptyRates
    /\ result = EmptyLegs
    /\ leg_name = None
    /\ i = 0
    /\ r = <<>>
    /\ returned = <<>>
    /\ calls = <<>>
    /\ order = EmptyLegs

\* a faulty variant of Raise: the failure is caught and what was built so far
\* is returned
RaiseReturningPartial ==
    /\ pc' = "failed"
    /\ returned' = <<result>>

\* an exception leaves _run: nothing is returned
Raise ==
    /\ pc' = "failed"
    /\ returned' = <<>>

\* ------------------------------------------------------------------ actions

\* the framework calls _run(origin, destination, departure_date, return_date)
Invoke ==
    /\ pc \in {"idle", "done", "failed"}
    /\ \E o \in Origins, d \in Destinations,
          dd \in DepartureDates, rd \in ReturnDates :
        /\ origin' = o
        /\ destination' = d
        /\ departure_date' = dd
        /\ return_date' = rd
    /\ pc' = "token"
    /\ token' = None
    /\ legs' = EmptyLegs
    /\ rates' = EmptyRates
    /\ result' = EmptyLegs
    /\ leg_name' = None
    /\ i' = 0
    /\ r' = <<>>
    /\ returned' = <<>>
    /\ calls' = <<>>
    /\ order' = EmptyLegs

\* What a helper does with the parsed body: it returns a value or raises.
Returns(v) == [raised |-> FALSE, value |-> v]
Raises == [raised |-> TRUE]

\* a faulty variant of amadeus_token: .get("access_token"), None when absent
amadeus_token_get(body) ==
    IF "access_token" \in DOMAIN body THEN Returns(body.access_token) ELSE Returns(None)

\* r.json()["access_token"] (line 39)
amadeus_token(body) ==
    IF "access_token" \in DOMAIN body THEN Returns(body.access_token) ELSE Raises

\* r.json()["data"] (line 55)
search_leg(body) ==
    IF "data" \in DOMAIN body THEN Returns(body.data) ELSE Raises

\* a faulty variant of get_rate: a rate of 1.00 when the response has none
get_rate_default(body) ==
    IF "rates" \in DOMAIN body /\ "BRL" \in DOMAIN body.rates
    THEN Returns(body.rates.BRL)
    ELSE Returns(100)

\* r.json()["rates"]["BRL"] (line 27)
get_rate(body) ==
    IF "rates" \in DOMAIN body /\ "BRL" \in DOMAIN body.rates
    THEN Returns(body.rates.BRL)
    ELSE Raises

\* the offer query of lines 43-54
SearchCall(tok, orig, dest, date) ==
    [op |-> "search", token |-> tok, originLocationCode |-> orig,
     destinationLocationCode |-> dest, departureDate |-> date]

\* the arguments of the two _search_leg calls (lines 78 and 79)
OutboundArgs == <<token, origin, destination, departure_date>>
\* a faulty variant of ReturnArgs: origin and destination not swapped
ReturnArgsNoSwap == <<token, origin, destination, return_date>>

ReturnArgs == <<token, destination, origin, return_date>>

\* the rate query of lines 18-26
RateCall(cur) == [op |-> "rate", base |-> cur]

\* token = _amadeus_token() (line 75; lines 29-39)
AmadeusToken ==
    /\ pc = "token"
    /\ calls' = Append(calls, [op |-> "token"])
    /\ \/ \* requests.post raises (unreachable, timeout)
          /\ Raise
          /\ r' = <<>>
          /\ UNCHANGED token
       \/ \E status \in Statuses, body \in TokenBodies :
            /\ r' = <<status>>
            /\ LET out == amadeus_token(body)
               IN  IF out.raised
                   THEN /\ Raise
                        /\ UNCHANGED token
                   ELSE /\ token' = out.value
                        /\ pc' = "leg_out"
                        /\ UNCHANGED returned
    /\ UNCHANGED <<origin, destination, departure_date, return_date, legs, rates,
                   result, leg_name, i, order>>

\* _search_leg(tok, orig, dest, _to_iso(date_br)) and the store of its value
\* under legs[name]; _to_iso runs first and may raise before any request
SearchLeg(name, args, next) ==
    LET tok == args[1]
        orig == args[2]
        dest == args[3]
        date_br == args[4]
    IN  IF ~ParsesBr(date_br)
        THEN /\ Raise
             /\ UNCHANGED <<legs, r, calls>>
        ELSE /\ calls' = Append(calls, SearchCall(tok, orig, dest, to_iso(date_br)))
             /\ \/ \* requests.get raises (unreachable, timeout)
                   /\ Raise
                   /\ r' = <<>>
                   /\ UNCHANGED legs
                \/ \E status \in Statuses, body \in SearchBodies :
                     /\ r' = <<status>>
                     /\ LET out == search_leg(body)
                        IN  IF out.raised
                            THEN /\ Raise
                                 /\ UNCHANGED legs
                            ELSE /\ legs' = [legs EXCEPT ![name] = out.value]
                                 /\ pc' = next
                                 /\ UNCHANGED returned

\* "outbound": _search_leg(token, origin, destination, ...) (line 78)
SearchOutbound ==
    /\ pc = "leg_out"
    /\ SearchLeg("outbound", OutboundArgs, "leg_ret")
    /\ UNCHANGED <<origin, destination, departure_date, return_date, token, rates,
                   result, leg_name, i, order>>

\* "return": _search_leg(token, destination, origin, ...) (line 79), then
\* rates, result = {}, {...} (line 82) and the first leg of the loop (line 83)
SearchReturn ==
    /\ pc = "leg_ret"
    /\ SearchLeg("return", ReturnArgs, "loop")
    /\ rates' = EmptyRates
    /\ result' = EmptyLegs
    /\ order' = EmptyLegs
    /\ leg_name' = IF pc' = "loop" THEN "outbound" ELSE leg_name
    /\ i' = IF pc' = "loop" THEN 1 ELSE i
    /\ UNCHANGED <<origin, destination, departure_date, return_date, token>>

\* a faulty variant of Cached: the table is never consulted
CachedNever(cur) == FALSE

\* "cur not in rates" is false (line 86)
Cached(cur) == cur \in DOMAIN rates

\* lines 88-98 for offer o with rates[cur] = rate
AppendOffer(o, rate) ==
    IF "itineraries" \notin DOMAIN o
    THEN /\ Raise
         /\ UNCHANGED <<result, order, i>>
    ELSE /\ \E p \in Round2(Product(o, rate)) :
              result' = [result EXCEPT ![leg_name] = Append(@, Normalized(o, p))]
         /\ order' = [order EXCEPT ![leg_name] = Append(@, i)]
         /\ i' = i + 1
         /\ UNCHANGED <<pc, returned>>

\* one iteration of "for o in offers" (lines 84-98)
ProcessOffer ==
    /\ pc = "loop"
    /\ i <= Len(legs[leg_name])
    /\ LET o == legs[leg_name][i]
       IN  IF "price" \notin DOMAIN o
           THEN /\ Raise
                /\ UNCHANGED <<rates, result, order, i, r, calls>>
           ELSE LET cur == o.price.currency
                IN  IF Cached(cur)
                    THEN /\ AppendOffer(o, rates[cur])
                         /\ UNCHANGED <<rates, r, calls>>
                    ELSE /\ calls' = Append(calls, RateCall(cur))
                         /\ \/ \* requests.get raises (unreachable, timeout)
                               /\ Raise
                               /\ r' = <<>>
                               /\ UNCHANGED <<rates, result, order, i>>
                            \/ \E status \in Statuses, body \in RateBodies :
                                 /\ r' = <<status>>
                                 /\ LET out == get_rate(body)
                                    IN  IF out.raised
                                        THEN /\ Raise
                                             /\ UNCHANGED <<rates, result, order, i>>
                                        ELSE /\ rates' = (cur :> out.value) @@ rates
                                             /\ AppendOffer(o, out.value)
    /\ UNCHANGED <<origin, destination, departure_date, return_date, token, legs,
                   leg_name>>

\* result[leg_name].sort(...) (line 99), then the next leg or the end of the loop
SortLeg ==
    /\ pc = "loop"
    /\ i > Len(legs[leg_name])
    /\ LET p == SortPerm(PriceKeys(result[leg_name]))
       IN  /\ result' = [result EXCEPT ![leg_name] = Permute(@, p)]
           /\ order' = [order EXCEPT ![leg_name] = Permute(@, p)]
    /\ IF leg_name = "outbound"
       THEN /\ leg_name' = "return"
            /\ i' = 1
            /\ pc' = pc
       ELSE /\ pc' = "ret"
            /\ UNCHANGED <<leg_name, i>>
    /\ UNCHANGED <<origin, destination, departure_date, return_date, token, legs,
                   rates, r, returned, calls>>

\* return json.dumps(result, ensure_ascii=False) (line 101)
Return ==
    /\ pc = "ret"
    /\ returned' = <<result>>
    /\ pc' = "done"
    /\ UNCHANGED <<origin, destination, departure_date, return_date, token, legs,
                   rates, result, leg_name, i, r, calls, order>>

Next ==
    \/ Invoke
    \/ AmadeusToken
    \/ SearchOutbound
    \/ SearchReturn
    \/ ProcessOffer
    \/ SortLeg
    \/ Return

Spec == Init /\ [][Next]_vars

\* ------------------------------------------------------------------ properties

LegNames == {"outbound", "return"}

\* the value _run returned, where it has returned one
Returned == returned[1]

\* the positions of calls holding a call of kind op
CallsOf(op) == {k \in 1..Len(calls) : calls[k].op = op}

\* the currencies of the offers of both legs that carry a price
CurrenciesPresent ==
    UNION {{legs[L][k].price.currency :
                k \in {j \in 1..Len(legs[L]) : "price" \in DOMAIN legs[L][j]}} :
           L \in LegNames}

Abs(x) == IF x < 0 THEN -x ELSE x

\* C1: in a returned result each leg is in non-decreasing order of price_brl,
\* and two entries of a leg with the same price_brl stand in the order in
\* which the provider delivered their offers.
C1_SortedStable ==
    returned # <<>> =>
        \A L \in LegNames : \A a, b \in 1..Len(Returned[L]) :
            a < b =>
                /\ Returned[L][a].price_brl <= Returned[L][b].price_brl
                /\ Returned[L][a].price_brl = Returned[L][b].price_brl
                       => order[L][a] < order[L][b]

\* a returned leg that the sort reordered and that holds two different entries
\* of one price
C1_Witness ==
    /\ returned # <<>>
    /\ \E L \in LegNames :
        /\ \E a \in 1..Len(order[L]) : order[L][a] # a
        /\ \E a, b \in 1..Len(Returned[L]) :
            /\ a < b
            /\ Returned[L][a].price_brl = Returned[L][b].price_brl
            /\ Returned[L][a] # Returned[L][b]

\* C2: within one invocation there is at most one rate query per currency, so
\* no more rate queries than currencies present in the two legs; a rate in the
\* table was fetched by a query of this invocation (the table starts empty).
C2_RateOncePerCurrency ==
    /\ \A a, b \in CallsOf("rate") : calls[a].base = calls[b].base => a = b
    /\ Cardinality(CallsOf("rate")) <= Cardinality(CurrenciesPresent)
    /\ \A c \in DOMAIN rates : \E k \in CallsOf("rate") : calls[k].base = c

\* a finished invocation in which both legs hold an offer in USD and the one
\* USD rate was fetched while the outbound leg was processed
C2_Witness ==
    /\ pc = "done"
    /\ \E a \in 1..Len(legs.outbound) : legs.outbound[a].price.currency = "USD"
    /\ \E b \in 1..Len(legs.return) : legs.return[b].price.currency = "USD"
    /\ Cardinality({k \in CallsOf("rate") : calls[k].base = "USD"}) = 1
    /\ Cardinality(CallsOf("rate")) = 2

\* C3: an invocation that failed has returned nothing, and a returned result
\* holds one entry for every offer of each of the two legs.
C3_AllOrNothing ==
    /\ pc = "failed" => returned = <<>>
    /\ returned # <<>> =>
        /\ pc = "done"
        /\ \A L \in LegNames : Len(Returned[L]) = Len(legs[L])

\* a failure after the outbound leg was completed and sorted, with entries of
\* the return leg already built: nothing of it was returned
C3_Witness ==
    /\ pc = "failed"
    /\ leg_name = "return"
    /\ result.outbound # <<>>
    /\ result.return # <<>>
    /\ returned = <<>>

\* C4: once the token call or an offer query is answered with a non-success
\* status, the invocation has failed.
C4_NonSuccessFails ==
    (/\ calls # <<>>
     /\ calls[Len(calls)].op \in {"token", "search"}
     /\ r # <<>>
     /\ ~Success(r[1]))
        => pc = "failed"

\* C5: while no token has been obtained the only call issued is the token
\* call and nothing is returned; an offer query is issued only after the token
\* call, carries the token it returned, and a rate query comes after both.
C5_AuthFirst ==
    /\ token = None => CallsOf("search") \cup CallsOf("rate") = {}
    /\ token = None => returned = <<>>
    /\ \A k \in CallsOf("search") :
        /\ 1 \in CallsOf("token")
        /\ k > 1
        /\ token # None
        /\ calls[k].token = token

\* the token endpoint answered 401 without an access token: the invocation
\* has failed with the token call as its only call
C5_Witness ==
    /\ pc = "failed"
    /\ token = None
    /\ r = <<401>>
    /\ calls = <<[op |-> "token"]>>

\* C6: a rate query that put no rate into the table is the last call of a
\* failed invocation: the offer it was made for and the offers after it have
\* no entry in the result and nothing is returned; every rate in the table is
\* one the provider delivered.
C6_NoDefaultRate ==
    /\ \A k \in CallsOf("rate") :
        calls[k].base \notin DOMAIN rates =>
            /\ k = Len(calls)
            /\ pc = "failed"
            /\ returned = <<>>
            /\ Len(result[leg_name]) = i - 1
    /\ \A c \in DOMAIN rates : rates[c] \in RateValues

\* the rate provider answered, its response had no BRL rate, and offers of
\* the leg were still to be processed
C6_Witness ==
    /\ pc = "failed"
    /\ calls # <<>>
    /\ calls[Len(calls)].op = "rate"
    /\ calls[Len(calls)].base \notin DOMAIN rates
    /\ r # <<>>
    /\ i < Len(legs[leg_name])
    /\ result[leg_name] # <<>>

\* C7: a returned leg holds exactly one entry per offer the provider delivered
\* for that leg: the entries are the normalized offers of the leg, each once.
C7_NoFilterNoTruncate ==
    returned # <<>> =>
        \A L \in LegNames :
            /\ Len(Returned[L]) = Len(legs[L])
            /\ Len(order[L]) = Len(legs[L])
            /\ {order[L][k] : k \in 1..Len(order[L])} = 1..Len(legs[L])
            /\ \A k \in 1..Len(Returned[L]) :
                LET o == legs[L][order[L][k]]
                    seg == o.itineraries[1].segments[1]
                IN  /\ Returned[L][k].departure_time = seg.departure.at
                    /\ Returned[L][k].arrival_time = seg.arrival.at
                    /\ Returned[L][k].stops = seg.numberOfStops
                    /\ Returned[L][k].seats_remaining = o.numberOfBookableSeats
                    /\ Returned[L][k].company =
                         CASE seg.carrierCode = "LA" -> "LATAM"
                           [] seg.carrierCode = "G3" -> "GOL"
                           [] seg.carrierCode = "AD" -> "Azul"
                           [] seg.carrierCode = "2Z" -> "Voepass"
                           [] OTHER -> seg.carrierCode

\* a returned leg with more entries than the "max" of the query
C7_Witness ==
    /\ returned # <<>>
    /\ Len(Returned.outbound) > ProviderMax

\* C8: the price_brl of a returned entry is the total of its offer times the
\* rate of that offer's own currency, to the nearest 1/100; offers of 200 USD,
\* 150 EUR and 180 USD at 5.00 and 5.50 come out as 825.00, 900.00, 1000.00.
C8_PriceIsRoundedProduct ==
    returned # <<>> =>
        /\ \A L \in LegNames : \A k \in 1..Len(Returned[L]) :
            LET o == legs[L][order[L][k]]
                exact == o.price.grandTotal * rates[o.price.currency]
            IN  Abs(100 * Returned[L][k].price_brl - exact) <= 50
        /\ (/\ legs.outbound = ExampleData
            /\ rates["USD"] = 500
            /\ rates["EUR"] = 550)
              => /\ PriceKeys(Returned.outbound) = <<82500, 90000, 100000>>
                 /\ order.outbound = <<2, 3, 1>>

\* the example has run, and the other leg holds a price that had to be rounded
C8_Witness ==
    /\ returned # <<>>
    /\ legs.outbound = ExampleData
    /\ rates["USD"] = 500
    /\ rates["EUR"] = 550
    /\ \E k \in 1..Len(Returned.return) :
        LET o == legs.return[order.return[k]]
        IN  (o.price.grandTotal * rates[o.price.currency]) % 100 # 0

\* C9: the calls of an invocation are, in this order, the token call, the
\* offer query (origin, destination, ISO departure date), the offer query
\* (destination, origin, ISO return date), both with the token, and then only
\* rate queries; an invocation that reached the loop has issued both queries.
C9_CallOrder ==
    /\ \A k \in 1..Len(calls) :
        /\ k = 1 => calls[k] = [op |-> "token"]
        /\ k = 2 => calls[k] =
             [op |-> "search", token |-> token,
              originLocationCode |-> origin,
              destinationLocationCode |-> destination,
              departureDate |-> [sep |-> "-",
                                 parts |-> <<departure_date.parts[3],
                                             departure_date.parts[2],
                                             departure_date.parts[1]>>]]
        /\ k = 3 => calls[k] =
             [op |-> "search", token |-> token,
              originLocationCode |-> destination,
              destinationLocationCode |-> origin,
              departureDate |-> [sep |-> "-",
                                 parts |-> <<return_date.parts[3],
                                             return_date.parts[2],
                                             return_date.parts[1]>>]]
        /\ k > 3 => calls[k].op = "rate"
    /\ pc \in {"loop", "ret", "done"} => Len(calls) >= 3

\* a finished invocation from one airport to another that also looked up rates
C9_Witness ==
    /\ pc = "done"
    /\ origin # destination
    /\ Len(calls) > 3

\* C10 as stated: every price_brl of a returned result is non-negative.
C10_NonNegative ==
    returned # <<>> =>
        \A L \in LegNames : \A k \in 1..Len(Returned[L]) :
            Returned[L][k].price_brl >= 0

\* C10 as amended: the price_brl of a returned entry is non-negative when the
\* total of its offer and the rate of its currency are both non-negative.
C10_NonNegativeForNonNegativeInput ==
    returned # <<>> =>
        \A L \in LegNames : \A k \in 1..Len(Returned[L]) :
            LET o == legs[L][order[L][k]]
            IN  (o.price.grandTotal >= 0 /\ rates[o.price.currency] >= 0)
                    => Returned[L][k].price_brl >= 0

\* a returned leg with an offer of negative total next to one of positive total
C10_Witness ==
    /\ returned # <<>>
    /\ legs.outbound = NegativeData
    /\ \E k \in 1..Len(Returned.outbound) : Returned.outbound[k].price_brl > 0

====
